---- MODULE Spec2Model ----
(***************************************************************************)
(* State-machine model of packages/plugin-solana-agentkit/src/index.ts     *)
(* (class TwitterSearchClient): the trend-to-token generator run by        *)
(* start(), and the search-and-reply engagement loop.                      *)
(*                                                                         *)
(* Every asynchronous method is cut at its awaits: one action per          *)
(* resumption (the awaited call returning or throwing), which carries the  *)
(* synchronous code up to the next await.                                  *)
(*                                                                         *)
(* Strings the code inspects character by character (tickers, names,       *)
(* tweet ids, model responses) are sequences of one-character strings.     *)
(* An optional value (T | null) is a sequence of length 0 or 1.            *)
(***************************************************************************)
EXTENDS Integers, Sequences, FiniteSets, TLC

VARIABLES
    cache,          \* runtime.cacheManager: the persisted key/value store
    announce,       \* client.twitterConfig.ANNOUNCE_NEW_TOKENS
    boot,           \* start(): its position and the locals of storeTokenInfo
    starts,         \* number of process lifetimes begun so far
    gen,            \* locals of the getTopTrendAndGenerateToken invocation
    announcements,  \* announcements posted through twitterClient.sendTweet
    topics,         \* runtime.character.topics
    respondedTweets,\* this.respondedTweets
    timers,         \* pending setTimeout callbacks of engageWithSearchTermsLoop
    passes,         \* the engageWithSearchTerms invocations followed step by step
    untracked,      \* whether a pass was started with every slot of passes taken
    loopParity,     \* history: the number of calls of the loop so far, modulo 2
    handler         \* locals of the CREATE_TRENDING_TOKEN handler invocations

bootVars == <<announce, boot, starts, announcements>>
engVars == <<topics, respondedTweets, timers, passes, untracked, loopParity>>
actVars == <<handler>>
vars == <<cache, announce, boot, starts, gen, announcements,
          topics, respondedTweets, timers, passes, untracked, loopParity,
          handler>>

(***************************************************************************)
(* Bounds of the model.                                                    *)
(***************************************************************************)
MaxTrends == 3
MaxTickerLen == 6
MaxStarts == 3

(***************************************************************************)
(* Values.                                                                 *)
(***************************************************************************)
None == <<>>
Some(v) == <<v>>

Range(s) == {s[k] : k \in 1..Len(s)}
SeqsUpTo(S, n) == UNION {[1..k -> S] : k \in 0..n}
MinOf(S) == CHOOSE m \in S : \A k \in S : m <= k

\* A JSON value as typeof sees it: a string (with its characters) or not.
JStr(s) == [type |-> "string", val |-> s]
JOther == [type |-> "undefined", val |-> <<>>]

(***************************************************************************)
(* What the collaborators can hand back.                                   *)
(***************************************************************************)
TrendNames == {"AI", "Web3"}
TwitterTrend == [name : TrendNames]
TrendLists == SeqsUpTo(TwitterTrend, MaxTrends)

NameLimit == 32
TickerMin == 3
TickerMax == 5

LowerChars == {"x"}
UpperChars == {"X", "Y"}
TickerChars == {"x", "Y", "7"}
Tickers == SeqsUpTo(TickerChars, MaxTickerLen)
NameOfLen(k) == [i \in 1..k |-> "n"]
Names == {NameOfLen(1), NameOfLen(NameLimit), NameOfLen(NameLimit + 1)}

TokenObjects ==
    [name : {JStr(n) : n \in Names} \cup {JOther},
     ticker : {JStr(t) : t \in Tickers} \cup {JOther},
     description : {JStr(<<"d">>), JOther},
     imagePrompt : {JStr(<<"p">>), JOther}]

NoObject ==
    [name |-> JOther, ticker |-> JOther,
     description |-> JOther, imagePrompt |-> JOther]

\* The text generateText resolves with: a clean JSON object ("json"), text
\* that is not JSON, such as an object wrapped in prose ("prose"), or JSON
\* that is no object, such as null ("null").
JsonText(o) == [kind |-> "json", obj |-> o]
ProseText == [kind |-> "prose", obj |-> NoObject]
NullText == [kind |-> "null", obj |-> NoObject]
AllResponses == {JsonText(o) : o \in TokenObjects} \cup {ProseText, NullText}

\* The responses of the runs that vary the trend list: one accepted concept
\* in lower case, one in upper case, and one rejected on each ground.
SomeTickers ==
    {<<"x", "x", "x">>, <<"X", "Y", "X", "Y", "Y">>,
     <<"x", "Y">>, <<"x", "7", "x">>, [i \in 1..MaxTickerLen |-> "Y"]}
SomeObjects ==
    {o \in TokenObjects :
        \/ /\ o.ticker.type = "string"
           /\ o.ticker.val \in SomeTickers
           /\ o.name = JStr(NameOfLen(1))
           /\ o.description.type = "string"
           /\ o.imagePrompt.type = "string"
        \/ /\ o.ticker = JStr(<<"x", "x", "x">>)
           /\ \/ o.name # JStr(NameOfLen(1))
              \/ o.description.type # "string"}
SomeResponses == {JsonText(o) : o \in SomeObjects} \cup {ProseText, NullText}

(***************************************************************************)
(* Pure functions of the generator.                                        *)
(***************************************************************************)
\* JSON.parse(response) followed by the assignment of sourceTrend: the
\* object, or None when either throws (SyntaxError on text that is not
\* JSON, TypeError on null).
JSONparse(response, selectedTrend) ==
    IF response.kind = "json"
    THEN Some([name |-> response.obj.name,
               ticker |-> response.obj.ticker,
               description |-> response.obj.description,
               imagePrompt |-> response.obj.imagePrompt,
               sourceTrend |-> selectedTrend])
    ELSE None

\* /^[A-Za-z]+$/.test(s)
IsLetter(c) == c \in LowerChars \cup UpperChars
MatchesLetters(s) == Len(s) >= 1 /\ \A k \in 1..Len(s) : IsLetter(s[k])

\* validateTokenInfo without the test of the regular expression
validateTokenInfo_noRegex(tokenInfo) ==
    /\ tokenInfo.name.type = "string"
    /\ Len(tokenInfo.name.val) <= NameLimit
    /\ tokenInfo.ticker.type = "string"
    /\ Len(tokenInfo.ticker.val) >= TickerMin
    /\ Len(tokenInfo.ticker.val) <= TickerMax
    /\ tokenInfo.description.type = "string"
    /\ tokenInfo.imagePrompt.type = "string"

validateTokenInfo(tokenInfo) ==
    /\ tokenInfo.name.type = "string"
    /\ Len(tokenInfo.name.val) <= NameLimit
    /\ tokenInfo.ticker.type = "string"
    /\ Len(tokenInfo.ticker.val) >= TickerMin
    /\ Len(tokenInfo.ticker.val) <= TickerMax
    /\ MatchesLetters(tokenInfo.ticker.val)
    /\ tokenInfo.description.type = "string"
    /\ tokenInfo.imagePrompt.type = "string"

\* String.prototype.toUpperCase
UpperChar(c) == IF c = "x" THEN "X" ELSE c
toUpperCase(s) == [k \in 1..Len(s) |-> UpperChar(s[k])]

\* (await cacheManager.get(key)) || []
OrEmpty(entry) == IF entry = None THEN <<>> ELSE entry[1]

\* isTopicUsed comparing the trend with the newest entry of the log only
isTopicUsed_newest(usedTrends, trend) ==
    Len(usedTrends) > 0 /\ usedTrends[Len(usedTrends)] = trend

\* usedTrends.includes(trend)
isTopicUsed(usedTrends, trend) == trend \in Range(usedTrends)

\* !selectedTrend: null and the empty string are both falsy
Falsy(selectedTrend) == selectedTrend = None \/ selectedTrend = Some("")

(***************************************************************************)
(* getTopTrendAndGenerateToken                                             *)
(***************************************************************************)
GenIdle ==
    [pc |-> "idle", trends |-> <<>>, i |-> 0, selectedTrend |-> None,
     response |-> None, tokenInfo |-> None, usedTrends |-> <<>>,
     result |-> None, outcome |-> "", thrownBy |-> "",
     \* history of the invocation, read by the properties only
     logAtCall |-> None, scanDone |-> FALSE, llmCalled |-> FALSE]

\* return null, from one of the return statements or from a catch block
ReturnNull(g, outcome, thrownBy) ==
    [g EXCEPT !.pc = "done", !.result = None,
              !.outcome = outcome, !.thrownBy = thrownBy]

\* After the for loop: no trend selected returns null, else generateText is
\* called with the prompt.
AfterSelection(g) ==
    IF Falsy(g.selectedTrend)
    THEN ReturnNull([g EXCEPT !.scanDone = TRUE], "no_unused", "")
    ELSE [g EXCEPT !.scanDone = TRUE, !.pc = "generateText",
                   !.llmCalled = TRUE]

\* The head of the for loop at index i: the next isTopicUsed call, or the
\* end of the list.
NextTrend(g, i) ==
    IF i > Len(g.trends)
    THEN AfterSelection(g)
    ELSE [g EXCEPT !.pc = "isTopicUsed", !.i = i]

\* ScanStep without the break: the scan goes on after an unused trend
ScanStep_noBreak(g, usedTrends) ==
    IF isTopicUsed(usedTrends, g.trends[g.i].name)
    THEN NextTrend(g, g.i + 1)
    ELSE NextTrend([g EXCEPT !.selectedTrend = Some(g.trends[g.i].name)],
                   g.i + 1)

\* One iteration of the for loop, isTopicUsed having read usedTrends.
ScanStep(g, usedTrends) ==
    IF isTopicUsed(usedTrends, g.trends[g.i].name)
    THEN NextTrend(g, g.i + 1)
    ELSE AfterSelection([g EXCEPT !.selectedTrend = Some(g.trends[g.i].name)])

\* AfterResponse without the return of the failed validation
AfterResponse_noReturn(g) ==
    LET parsed == JSONparse(g.response[1], g.selectedTrend[1])
    IN  IF parsed = None
        THEN ReturnNull(g, "parse_error", "")
        ELSE [g EXCEPT
                !.tokenInfo =
                    Some([parsed[1] EXCEPT
                            !.ticker = JStr(toUpperCase(parsed[1].ticker.val))]),
                !.pc = "cacheUsedTrend_get"]

\* The inner try block, generateText having returned g.response.
AfterResponse(g) ==
    LET parsed == JSONparse(g.response[1], g.selectedTrend[1])
    IN  IF parsed = None
        THEN ReturnNull(g, "parse_error", "")
        ELSE IF ~validateTokenInfo(parsed[1])
        THEN ReturnNull(g, "invalid", "")
        ELSE [g EXCEPT
                !.tokenInfo =
                    Some([parsed[1] EXCEPT
                            !.ticker = JStr(toUpperCase(parsed[1].ticker.val))]),
                !.pc = "cacheUsedTrend_get"]

\* A push that leaves out a trend the list holds already.
PushUsedTrend_unique(entry, trend) ==
    IF trend \in Range(OrEmpty(entry))
    THEN OrEmpty(entry)
    ELSE Append(OrEmpty(entry), trend)

\* cacheUsedTrend after its get: usedTrends.push(trend)
PushUsedTrend(entry, trend) == Append(OrEmpty(entry), trend)

getTrendsReturns(Lists) ==
    /\ gen.pc = "getTrends"
    /\ \E trends \in Lists : gen' = NextTrend([gen EXCEPT !.trends = trends], 1)
    /\ UNCHANGED <<cache, bootVars, engVars, actVars>>

getTrendsThrows ==
    /\ gen.pc = "getTrends"
    /\ gen' = ReturnNull(gen, "error", "getTrends")
    /\ UNCHANGED <<cache, bootVars, engVars, actVars>>

isTopicUsedReturns ==
    /\ gen.pc = "isTopicUsed"
    /\ gen' = ScanStep(gen, OrEmpty(cache.used_trends))
    /\ UNCHANGED <<cache, bootVars, engVars, actVars>>

isTopicUsedThrows ==
    /\ gen.pc = "isTopicUsed"
    /\ gen' = ReturnNull(gen, "error", "cache.get")
    /\ UNCHANGED <<cache, bootVars, engVars, actVars>>

generateTextReturns(Responses) ==
    /\ gen.pc = "generateText"
    /\ \E r \in Responses : gen' = AfterResponse([gen EXCEPT !.response = Some(r)])
    /\ UNCHANGED <<cache, bootVars, engVars, actVars>>

generateTextThrows ==
    /\ gen.pc = "generateText"
    /\ gen' = ReturnNull(gen, "error", "generateText")
    /\ UNCHANGED <<cache, bootVars, engVars, actVars>>

cacheUsedTrendGetReturns ==
    /\ gen.pc = "cacheUsedTrend_get"
    /\ gen' = [gen EXCEPT
                !.usedTrends = PushUsedTrend(cache.used_trends, gen.selectedTrend[1]),
                !.pc = "cacheUsedTrend_set"]
    /\ UNCHANGED <<cache, bootVars, engVars, actVars>>

cacheUsedTrendGetThrows ==
    /\ gen.pc = "cacheUsedTrend_get"
    /\ gen' = ReturnNull(gen, "error", "cache.get")
    /\ UNCHANGED <<cache, bootVars, engVars, actVars>>

cacheUsedTrendSetReturns ==
    /\ gen.pc = "cacheUsedTrend_set"
    /\ cache' = [cache EXCEPT !.used_trends = Some(gen.usedTrends)]
    /\ gen' = [gen EXCEPT !.pc = "done", !.result = gen.tokenInfo,
                          !.outcome = "ok"]
    /\ UNCHANGED <<bootVars, engVars, actVars>>

cacheUsedTrendSetThrows ==
    /\ gen.pc = "cacheUsedTrend_set"
    /\ gen' = ReturnNull(gen, "error", "cache.set")
    /\ UNCHANGED <<cache, bootVars, engVars, actVars>>

getTopTrendAndGenerateToken(Lists, Responses) ==
    \/ getTrendsReturns(Lists)
    \/ getTrendsThrows
    \/ isTopicUsedReturns
    \/ isTopicUsedThrows
    \/ generateTextReturns(Responses)
    \/ generateTextThrows
    \/ cacheUsedTrendGetReturns
    \/ cacheUsedTrendGetThrows
    \/ cacheUsedTrendSetReturns
    \/ cacheUsedTrendSetThrows

(***************************************************************************)
(* CREATE_TRENDING_TOKEN: values and pure functions                        *)
(***************************************************************************)
JNum == [type |-> "number", val |-> <<"9">>]

\* The objects the model can answer the handler with: the name of 1 or 33
\* characters, the symbol of letters, with a digit, or too long, and each
\* field of the type asked for or of another.
ContentSymbols ==
    {<<"X", "Y", "X">>, <<"x", "7", "x">>, [i \in 1..(TickerMax + 1) |-> "Y"]}
ContentNames == {NameOfLen(1), NameOfLen(NameLimit + 1)}
ContentObjects ==
    [trend : {JStr(<<"t">>)},
     name : {JStr(n) : n \in ContentNames} \cup {JOther},
     symbol : {JStr(t) : t \in ContentSymbols} \cup {JOther},
     description : {JStr(<<"d">>)},
     uri : {JStr(<<"u">>)},
     decimals : {JNum, JOther}]
NoContent ==
    [trend |-> JOther, name |-> JOther, symbol |-> JOther,
     description |-> JOther, uri |-> JOther, decimals |-> JOther]
ContentText(o) == [kind |-> "json", obj |-> o]
ContentProse == [kind |-> "prose", obj |-> NoContent]
ContentNull == [kind |-> "null", obj |-> NoContent]
ContentResponses ==
    {ContentText(o) : o \in ContentObjects} \cup {ContentProse, ContentNull}

\* isTrendingTokenContent
isTrendingTokenContent(content) ==
    /\ content.trend.type = "string"
    /\ content.name.type = "string"
    /\ content.symbol.type = "string"
    /\ content.description.type = "string"
    /\ content.uri.type = "string"
    /\ content.decimals.type = "number"

\* trends[0]?.name
TopTrend(trends) == IF Len(trends) = 0 THEN None ELSE Some(trends[1].name)

\* { ...tokenInfo, mintAddress, timestamp }, the time stamp left out
LaunchedRecord(tokenInfo) ==
    [trend |-> tokenInfo.trend, name |-> tokenInfo.name,
     symbol |-> tokenInfo.symbol, description |-> tokenInfo.description,
     uri |-> tokenInfo.uri, decimals |-> tokenInfo.decimals,
     mintAddress |-> JStr(<<"m">>)]

(***************************************************************************)
(* CREATE_TRENDING_TOKEN: one action per resumption of invocation h        *)
(***************************************************************************)
HandlerIdle ==
    [pc |-> "idle", trends |-> <<>>, topTrend |-> None, usedTrends |-> <<>>,
     tokenInfo |-> None, launchedTokens |-> <<>>, result |-> None,
     error |-> "", thrownBy |-> "", hasCallback |-> FALSE, callback |-> "",
     \* history of the invocation, read by the properties only
     deployed |-> FALSE,
     logAtCall |-> None, launchedAtCall |-> None]

\* The awaits of the handler.
HandlerPcs ==
    {"getTrends", "get_used_trends", "generateText", "deployToken",
     "set_used_trends", "get_launched_tokens", "set_launched_tokens"}

\* if (callback) callback(...): the optional callback is told, when the
\* caller passed one.
Tell(h, what) == IF h.hasCallback THEN what ELSE ""

\* The catch block: the error is logged and handed to the callback, and the
\* handler returns false.
HandlerFails(h, error, thrownBy) ==
    [h EXCEPT !.pc = "done", !.result = Some(FALSE), !.error = error,
              !.thrownBy = thrownBy, !.callback = Tell(h, "error")]

\* Lines 88-98: the top trend, and the read of the log.
HandlerAfterTrends(h, trends) ==
    LET topTrend == TopTrend(trends)
        q == [h EXCEPT !.trends = trends, !.topTrend = topTrend]
    IN  IF Falsy(topTrend)
        THEN HandlerFails(q, "No trending topics found", "")
        ELSE [q EXCEPT !.pc = "get_used_trends"]

\* Lines 95-113: the membership test on the log as read, and the call of
\* generateText.
HandlerAfterUsedTrends(h, usedTrends) ==
    LET q == [h EXCEPT !.usedTrends = usedTrends]
    IN  IF isTopicUsed(usedTrends, h.topTrend[1])
        THEN HandlerFails(q, "Top trend already used", "")
        ELSE [q EXCEPT !.pc = "generateText"]

\* Lines 115-132: JSON.parse and the type guard (each throws on text that is
\* not JSON and on null), then the call of deployToken.
HandlerAfterContent(h, content) ==
    IF content.kind # "json"
    THEN HandlerFails(h, "parse", "")
    ELSE IF ~isTrendingTokenContent(content.obj)
    THEN HandlerFails(h, "Invalid token content generated", "")
    ELSE [h EXCEPT !.tokenInfo = Some(content.obj), !.pc = "deployToken"]

\* A set that appends the newest element of the value to the stored list.
CacheSet_append(entry, value) ==
    Some(Append(OrEmpty(entry), value[Len(value)]))

\* cacheManager.set(key, value): the entry is replaced by the value.
CacheSet(entry, value) == Some(value)

\* The invocations of the handler followed: the runtime awaits none of them
\* before it calls the next.
Handlers == {1, 2}

SetHandler(h, r) ==
    /\ handler' = [handler EXCEPT ![h] = r]
    /\ UNCHANGED <<cache, gen, bootVars, engVars>>

\* The runtime calls the handler of the action, with or without a callback.
handlerCalled(h) ==
    /\ handler[h].pc \in {"idle", "done"}
    /\ \E given \in BOOLEAN :
        SetHandler(h, [HandlerIdle EXCEPT
                      !.pc = "getTrends",
                      !.hasCallback = given,
                      !.logAtCall = cache.used_trends,
                      !.launchedAtCall = cache.launched_tokens])

handlerGetTrendsReturns(h, Lists) ==
    /\ handler[h].pc = "getTrends"
    /\ \E trends \in Lists : SetHandler(h, HandlerAfterTrends(handler[h], trends))

handlerUsedTrendsGetReturns(h) ==
    /\ handler[h].pc = "get_used_trends"
    /\ SetHandler(h, HandlerAfterUsedTrends(handler[h], OrEmpty(cache.used_trends)))

handlerGenerateTextReturns(h, Responses) ==
    /\ handler[h].pc = "generateText"
    /\ \E content \in Responses : SetHandler(h, HandlerAfterContent(handler[h], content))

\* deployToken has returned the mint: usedTrends.push(topTrend) on the list
\* read at line 95, and the call of cacheManager.set.
handlerDeployTokenReturns(h) ==
    /\ handler[h].pc = "deployToken"
    /\ SetHandler(h, [handler[h] EXCEPT
                      !.deployed = TRUE,
                      !.usedTrends = Append(@, handler[h].topTrend[1]),
                      !.pc = "set_used_trends"])

handlerUsedTrendsSetReturns(h) ==
    /\ handler[h].pc = "set_used_trends"
    /\ cache' = [cache EXCEPT !.used_trends = CacheSet(@, handler[h].usedTrends)]
    /\ handler' = [handler EXCEPT ![h].pc = "get_launched_tokens"]
    /\ UNCHANGED <<gen, bootVars, engVars>>

handlerLaunchedTokensGetReturns(h) ==
    /\ handler[h].pc = "get_launched_tokens"
    /\ SetHandler(h, [handler[h] EXCEPT
                      !.launchedTokens =
                          Append(OrEmpty(cache.launched_tokens),
                                 LaunchedRecord(handler[h].tokenInfo[1])),
                      !.pc = "set_launched_tokens"])

\* The record is stored, the callback is told of the success and the
\* handler returns true.
handlerLaunchedTokensSetReturns(h) ==
    /\ handler[h].pc = "set_launched_tokens"
    /\ cache' = [cache EXCEPT
                    !.launched_tokens = CacheSet(@, handler[h].launchedTokens)]
    /\ handler' = [handler EXCEPT ![h].pc = "done", ![h].result = Some(TRUE),
                                  ![h].callback = Tell(handler[h], "success")]
    /\ UNCHANGED <<gen, bootVars, engVars>>

\* An awaited call of the handler rejects.
handlerAwaitThrows(h) ==
    /\ handler[h].pc \in HandlerPcs
    /\ SetHandler(h, HandlerFails(handler[h], "rejected", handler[h].pc))

CREATE_TRENDING_TOKEN(h, Lists, Responses) ==
    \/ handlerCalled(h)
    \/ handlerGetTrendsReturns(h, Lists)
    \/ handlerUsedTrendsGetReturns(h)
    \/ handlerGenerateTextReturns(h, Responses)
    \/ handlerDeployTokenReturns(h)
    \/ handlerUsedTrendsSetReturns(h)
    \/ handlerLaunchedTokensGetReturns(h)
    \/ handlerLaunchedTokensSetReturns(h)
    \/ handlerAwaitThrows(h)

(***************************************************************************)
(* engageWithSearchTerms: values                                           *)
(***************************************************************************)
MaxSearch == 2
MaxTimeline == 1
MaxResponseLen == 2
MaxMessages == 1
MaxPasses == 1

SliceLimit == 20

TwitterUsername == "agent"

Post(id, username, thread, text, isRetweet, photos) ==
    [id |-> id, username |-> username,
     thread |-> [k \in 1..Len(thread) |-> [username |-> thread[k]]],
     text |-> text, isRetweet |-> isRetweet, photos |-> photos]

\* The posts the social client can return: a plain post, a repost with a
\* photo in whose thread the agent has already written, a post of the agent
\* itself, and a post without text. The id of the first is a prefix of the
\* id of the second.
TweetA == Post(<<"1">>, "alice", <<>>, <<"t">>, FALSE, 0)
TweetB == Post(<<"1", "2">>, "bob", <<"bob", TwitterUsername>>, <<"t">>, TRUE, 1)
TweetC == Post(<<"2">>, TwitterUsername, <<>>, <<"t">>, FALSE, 0)
TweetD == Post(<<"2", "1">>, "alice", <<"alice">>, <<>>, FALSE, 0)
Tweets == {TweetA, TweetB, TweetC, TweetD}
TweetIds == {t.id : t \in Tweets}

IsInjective(q) == \A a, b \in DOMAIN q : q[a] = q[b] => a = b
ListsOf(S, n) == {q \in SeqsUpTo(S, n) : IsInjective(q)}
SearchLists == ListsOf(Tweets, MaxSearch)
Timelines == ListsOf(Tweets, MaxTimeline)

ResponseChars == {"1", "2", " "}
PickResponses == SeqsUpTo(ResponseChars, MaxResponseLen)
ReplyTexts == {<<>>, <<"r">>}
TopicLists == {<<>>, <<"sol">>}

(***************************************************************************)
(* engageWithSearchTerms: pure functions                                   *)
(***************************************************************************)
MaxOf(S) == CHOOSE m \in S : \A k \in S : m >= k

\* String.prototype.includes
Includes(str, sub) ==
    \E k \in 0..(Len(str) - Len(sub)) : SubSeq(str, k + 1, k + Len(sub)) = sub

\* String.prototype.trim
trim(str) ==
    LET solid == {k \in 1..Len(str) : str[k] # " "}
    IN  IF solid = {} THEN <<>> ELSE SubSeq(str, MinOf(solid), MaxOf(solid))

\* Array.prototype.slice(0, n)
slice(q, n) == SubSeq(q, 1, IF Len(q) < n THEN Len(q) ELSE n)

\* The orders sort(() => Math.random() - 0.5) can leave the array in.
Shuffles(q) ==
    {[k \in 1..Len(q) |-> q[f[k]]] :
        f \in {g \in [1..Len(q) -> 1..Len(q)] : IsInjective(g)}}

\* The filter reading only the first post of the thread.
NoBotTweet_first(tweet) ==
    \/ Len(tweet.thread) = 0
    \/ tweet.thread[1].username # TwitterUsername

\* thread.find((t) => t.username === this.twitterUsername), negated
NoBotTweet(tweet) ==
    \A k \in 1..Len(tweet.thread) : tweet.thread[k].username # TwitterUsername

\* The posts written into the prompt: [...slicedTweets, ...homeTimeline]
\* filtered on their threads, in order.
PromptTweets(slicedTweets, homeTimeline) ==
    SelectSeq(slicedTweets \o homeTimeline, NoBotTweet)

\* The predicate without its second disjunct.
IdMatches_oneWay(tweet, tweetId) == Includes(tweet.id, tweetId)

\* The predicate of slicedTweets.find
IdMatches(tweet, tweetId) ==
    Includes(tweet.id, tweetId) \/ Includes(tweetId, tweet.id)

\* A resolution that prefers the candidate whose id is the response.
FindTweet_exactFirst(slicedTweets, tweetId) ==
    LET exact == {k \in 1..Len(slicedTweets) : slicedTweets[k].id = tweetId}
        hits == {k \in 1..Len(slicedTweets) : IdMatches(slicedTweets[k], tweetId)}
    IN  IF exact # {} THEN Some(slicedTweets[MinOf(exact)])
        ELSE IF hits = {} THEN None
        ELSE Some(slicedTweets[MinOf(hits)])

\* Array.prototype.find: the first element the predicate holds of
FindTweet(slicedTweets, tweetId) ==
    LET hits == {k \in 1..Len(slicedTweets) : IdMatches(slicedTweets[k], tweetId)}
    IN  IF hits = {} THEN None ELSE Some(slicedTweets[MinOf(hits)])

(***************************************************************************)
(* engageWithSearchTerms: one action per resumption of the pass in slot s  *)
(***************************************************************************)
PassIdle ==
    [pc |-> "idle", searchTerm |-> None, recentTweets |-> <<>>,
     homeTimeline |-> <<>>, slicedTweets |-> <<>>, prompt |-> <<>>,
     tweetId |-> <<>>, selectedTweet |-> None, photo |-> 0,
     responseText |-> <<>>, inReplyTo |-> None, responseMessages |-> 0,
     memory |-> 0, outcome |-> "", thrownBy |-> "",
     \* the calls made and not awaited whose promise is pending
     alsoPending |-> {},
     \* history of the pass, read by the properties only
     effects |-> {}, respondedAtCall |-> {}]

InProgress(p) == p.pc \notin {"idle", "done"}

\* The awaits inside the inner try block (lines 454-499); the others stand
\* in the outer try block only.
InnerPcs ==
    {"sendTweet", "updateRecentMessageState1", "createMemory",
     "updateRecentMessageState2", "evaluate", "processActions", "cacheSet",
     "wait"}
\* The awaited calls that can reject: all but the two timers.
ThrowingPcs ==
    {"fetchSearchTweets", "fetchHomeTimeline", "cacheTimeline",
     "generateText", "ensureConnection", "buildConversationThread",
     "getTweet", "describeImage", "composeState", "saveRequestMessage",
     "generateMessageResponse"} \cup (InnerPcs \ {"wait"})

\* The pass returns: from a return statement, from a catch block, or by
\* reaching the end.
EndPass(p, outcome, thrownBy) ==
    [p EXCEPT !.pc = "done", !.outcome = outcome, !.thrownBy = thrownBy]

\* [...topics][Math.floor(Math.random() * topics.length)]
PickTopic ==
    IF topics = <<>> THEN {None} ELSE {Some(topics[k]) : k \in 1..Len(topics)}

\* Lines 274-320, the timeline being cached: shuffle, slice, the empty
\* check, the prompt, and the call of generateText.
AfterTimeline(p, shuffled) ==
    LET slicedTweets == slice(shuffled, SliceLimit)
    IN  IF Len(slicedTweets) = 0
        THEN EndPass([p EXCEPT !.recentTweets = shuffled], "no_tweets", "")
        ELSE [p EXCEPT !.recentTweets = shuffled,
                       !.slicedTweets = slicedTweets,
                       !.prompt = PromptTweets(slicedTweets, p.homeTimeline),
                       !.pc = "generateText"]

\* The selection without the comparison of the author with the agent.
AfterPick_noOwnCheck(p, response) ==
    LET tweetId == trim(response)
        selectedTweet == FindTweet(p.slicedTweets, tweetId)
        q == [p EXCEPT !.tweetId = tweetId, !.selectedTweet = selectedTweet,
                       !.homeTimeline = <<>>, !.prompt = <<>>]
    IN  IF selectedTweet = None
        THEN EndPass(q, "no_match", "")
        ELSE [q EXCEPT !.pc = "ensureConnection"]

\* Lines 322-355, generateText having returned: the id is resolved, and
\* ensureConnection is called for a post of another author. The timeline
\* and the prompt are not read again.
AfterPick(p, response) ==
    LET tweetId == trim(response)
        selectedTweet == FindTweet(p.slicedTweets, tweetId)
        q == [p EXCEPT !.tweetId = tweetId, !.selectedTweet = selectedTweet,
                       !.homeTimeline = <<>>, !.prompt = <<>>]
    IN  IF selectedTweet = None
        THEN EndPass(q, "no_match", "")
        ELSE IF selectedTweet[1].username = TwitterUsername
        THEN EndPass(q, "own_post", "")
        ELSE [q EXCEPT !.pc = "ensureConnection"]

\* Lines 403-425: the image descriptions, one await per photo, then
\* composeState.
DescribeFrom(p, k) ==
    IF k <= p.selectedTweet[1].photos
    THEN [p EXCEPT !.pc = "describeImage", !.photo = k]
    ELSE [p EXCEPT !.pc = "composeState"]

\* Line 400: twitterClient.getTrends() is called and not awaited. A call
\* that throws before it returns its promise ends the pass in the outer
\* catch block; else the promise is left pending, nothing being attached to
\* it, and the pass goes on to the photos.
CallGetTrends(p, thrown) ==
    IF thrown
    THEN EndPass(p, "error", "getTrends")
    ELSE DescribeFrom([p EXCEPT !.alsoPending = {"getTrends"}], 1)

\* Lines 360-400, the thread being built: a post without text ends the
\* pass, a repost is fetched first.
AfterThread(p, thrown) ==
    IF p.selectedTweet[1].text = <<>>
    THEN EndPass(p, "no_text", "")
    ELSE IF p.selectedTweet[1].isRetweet
    THEN [p EXCEPT !.pc = "getTweet"]
    ELSE CallGetTrends(p, thrown)

\* The reply posted whether or not it has text.
AfterReply_noTextCheck(p, text) ==
    [p EXCEPT !.responseText = text, !.pc = "sendTweet",
              !.inReplyTo = Some(p.tweetId)]

\* Lines 442-466, the reply being generated: a reply without text ends the
\* pass, else sendTweet is called in reply to tweetId.
AfterReply(p, text) ==
    IF text = <<>>
    THEN EndPass([p EXCEPT !.responseText = text], "no_reply_text", "")
    ELSE [p EXCEPT !.responseText = text, !.pc = "sendTweet",
                   !.inReplyTo = Some(p.tweetId)]

\* Lines 470-477: one createMemory per response message.
MemoryFrom(p, k) ==
    IF k <= p.responseMessages
    THEN [p EXCEPT !.pc = "createMemory", !.memory = k]
    ELSE [p EXCEPT !.pc = "updateRecentMessageState2"]

Did(p, effect) == [p EXCEPT !.effects = @ \cup {effect}]

SetPass(s, p) == passes' = [passes EXCEPT ![s] = p]
Frame ==
    UNCHANGED <<cache, gen, bootVars, actVars, topics, respondedTweets, timers,
                untracked, loopParity>>

sleepReturns(s) ==
    /\ passes[s].pc = "sleep"
    /\ SetPass(s, [passes[s] EXCEPT !.pc = "fetchSearchTweets"])
    /\ Frame

fetchSearchTweetsReturns(s, Lists) ==
    /\ passes[s].pc = "fetchSearchTweets"
    /\ \E tweets \in Lists :
          SetPass(s, [passes[s] EXCEPT !.recentTweets = tweets,
                                       !.pc = "fetchHomeTimeline"])
    /\ Frame

fetchHomeTimelineReturns(s, Lists) ==
    /\ passes[s].pc = "fetchHomeTimeline"
    /\ \E tweets \in Lists :
          SetPass(s, [passes[s] EXCEPT !.homeTimeline = tweets,
                                       !.pc = "cacheTimeline"])
    /\ Frame

cacheTimelineReturns(s) ==
    /\ passes[s].pc = "cacheTimeline"
    /\ \E shuffled \in Shuffles(passes[s].recentTweets) :
          SetPass(s, AfterTimeline(Did(passes[s], "timeline"), shuffled))
    /\ Frame

pickReturns(s, Responses) ==
    /\ passes[s].pc = "generateText"
    /\ \E response \in Responses : SetPass(s, AfterPick(passes[s], response))
    /\ Frame

\* The candidate list is not read after the selection.
ensureConnectionReturns(s) ==
    /\ passes[s].pc = "ensureConnection"
    /\ SetPass(s, [Did(passes[s], "connection") EXCEPT
                      !.pc = "buildConversationThread",
                      !.recentTweets = <<>>, !.slicedTweets = <<>>])
    /\ Frame

buildConversationThreadReturns(s) ==
    /\ passes[s].pc = "buildConversationThread"
    /\ \E thrown \in BOOLEAN : SetPass(s, AfterThread(passes[s], thrown))
    /\ Frame

getTweetReturns(s) ==
    /\ passes[s].pc = "getTweet"
    /\ \E thrown \in BOOLEAN : SetPass(s, CallGetTrends(passes[s], thrown))
    /\ Frame

describeImageReturns(s) ==
    /\ passes[s].pc = "describeImage"
    /\ SetPass(s, DescribeFrom(passes[s], passes[s].photo + 1))
    /\ Frame

composeStateReturns(s) ==
    /\ passes[s].pc = "composeState"
    /\ SetPass(s, [passes[s] EXCEPT !.pc = "saveRequestMessage"])
    /\ Frame

saveRequestMessageReturns(s) ==
    /\ passes[s].pc = "saveRequestMessage"
    /\ SetPass(s, [Did(passes[s], "requestMessage") EXCEPT
                      !.pc = "generateMessageResponse"])
    /\ Frame

generateMessageResponseReturns(s, Texts) ==
    /\ passes[s].pc = "generateMessageResponse"
    /\ \E text \in Texts : SetPass(s, AfterReply(passes[s], text))
    /\ Frame

sendTweetReturns(s) ==
    /\ passes[s].pc = "sendTweet"
    /\ \E n \in 0..MaxMessages :
          SetPass(s, [Did(passes[s], "reply") EXCEPT
                        !.responseMessages = n,
                        !.pc = "updateRecentMessageState1"])
    /\ Frame

updateRecentMessageState1Returns(s) ==
    /\ passes[s].pc = "updateRecentMessageState1"
    /\ SetPass(s, MemoryFrom(passes[s], 1))
    /\ Frame

createMemoryReturns(s) ==
    /\ passes[s].pc = "createMemory"
    /\ SetPass(s, MemoryFrom(Did(passes[s], "responseMessage"),
                             passes[s].memory + 1))
    /\ Frame

updateRecentMessageState2Returns(s) ==
    /\ passes[s].pc = "updateRecentMessageState2"
    /\ SetPass(s, [passes[s] EXCEPT !.pc = "evaluate"])
    /\ Frame

evaluateReturns(s) ==
    /\ passes[s].pc = "evaluate"
    /\ SetPass(s, [passes[s] EXCEPT !.pc = "processActions"])
    /\ Frame

\* processActions having returned, the id is added to respondedTweets and
\* the trace is handed to cacheManager.set.
processActionsReturns(s) ==
    /\ passes[s].pc = "processActions"
    /\ respondedTweets' = respondedTweets \cup {passes[s].selectedTweet[1].id}
    /\ SetPass(s, [Did(passes[s], "responded") EXCEPT !.pc = "cacheSet"])
    /\ UNCHANGED <<cache, gen, bootVars, actVars, topics, timers, untracked,
                   loopParity>>

cacheSetReturns(s) ==
    /\ passes[s].pc = "cacheSet"
    /\ cache' = [cache EXCEPT
                    !.tweet_generation = @ \cup {passes[s].selectedTweet[1].id}]
    /\ SetPass(s, [Did(passes[s], "trace") EXCEPT !.pc = "wait"])
    /\ UNCHANGED <<gen, bootVars, actVars, topics, respondedTweets, timers,
                   untracked, loopParity>>

waitReturns(s) ==
    /\ passes[s].pc = "wait"
    /\ SetPass(s, EndPass(passes[s], "replied", ""))
    /\ Frame

\* The awaited call rejects: the catch block of the try it stands in logs
\* the error and the pass returns.
awaitThrows(s) ==
    /\ passes[s].pc \in ThrowingPcs
    /\ SetPass(s, EndPass(passes[s],
                          IF passes[s].pc \in InnerPcs
                          THEN "send_error" ELSE "error",
                          passes[s].pc))
    /\ Frame

\* The promise of line 400 is fulfilled: nothing reads its value.
floatingGetTrendsReturns(s) ==
    /\ "getTrends" \in passes[s].alsoPending
    /\ SetPass(s, [passes[s] EXCEPT !.alsoPending = {}])
    /\ Frame

\* The process ends: what it held in memory is gone, the cache is kept.
ProcessExits ==
    /\ boot' = [pc |-> "crashed", generatedTokens |-> <<>>]
    /\ gen' = GenIdle
    /\ respondedTweets' = {}
    /\ timers' = 0
    /\ passes' = [s \in 1..MaxPasses |-> PassIdle]
    /\ untracked' = FALSE
    /\ loopParity' = 0
    /\ handler' = [h \in DOMAIN handler |-> HandlerIdle]
    /\ UNCHANGED <<cache, announce, starts, announcements, topics>>

\* The promise of line 400 is rejected. No try block covers it and no
\* handler is attached: the rejection is unhandled. The host either has a
\* listener for it, which the pass does not notice, or has none and node
\* exits.
floatingGetTrendsRejects(s) ==
    /\ "getTrends" \in passes[s].alsoPending
    /\ \E exits \in BOOLEAN :
          IF exits
          THEN ProcessExits
          ELSE /\ SetPass(s, [passes[s] EXCEPT !.alsoPending = {}])
               /\ Frame

engageWithSearchTerms(s, Searches, Homes, Responses, Texts) ==
    \/ sleepReturns(s)
    \/ fetchSearchTweetsReturns(s, Searches)
    \/ fetchHomeTimelineReturns(s, Homes)
    \/ cacheTimelineReturns(s)
    \/ pickReturns(s, Responses)
    \/ ensureConnectionReturns(s)
    \/ buildConversationThreadReturns(s)
    \/ getTweetReturns(s)
    \/ describeImageReturns(s)
    \/ composeStateReturns(s)
    \/ saveRequestMessageReturns(s)
    \/ generateMessageResponseReturns(s, Texts)
    \/ sendTweetReturns(s)
    \/ updateRecentMessageState1Returns(s)
    \/ createMemoryReturns(s)
    \/ updateRecentMessageState2Returns(s)
    \/ evaluateReturns(s)
    \/ processActionsReturns(s)
    \/ cacheSetReturns(s)
    \/ waitReturns(s)
    \/ awaitThrows(s)
    \/ floatingGetTrendsReturns(s)
    \/ floatingGetTrendsRejects(s)

(***************************************************************************)
(* engageWithSearchTermsLoop                                               *)
(***************************************************************************)
FreeSlots(Slots) == {s \in Slots : ~InProgress(passes[s])}

\* engageWithSearchTerms() is called and runs to its first await, the five
\* second sleep. The pass takes the lowest free slot; with every slot taken
\* it is started all the same and only recorded in untracked.
StartPass(Slots) ==
    IF FreeSlots(Slots) # {}
    THEN /\ \E term \in PickTopic :
              SetPass(MinOf(FreeSlots(Slots)),
                      [PassIdle EXCEPT
                          !.pc = "sleep", !.searchTerm = term,
                          !.alsoPending =
                              passes[MinOf(FreeSlots(Slots))].alsoPending,
                          !.respondedAtCall = respondedTweets])
         /\ UNCHANGED untracked
    ELSE /\ untracked' = TRUE
         /\ UNCHANGED passes

\* The loop without its setTimeout.
engageWithSearchTermsLoop_noTimer(Slots, pending) ==
    /\ StartPass(Slots)
    /\ timers' = pending
    /\ loopParity' = 1 - loopParity

\* The body of engageWithSearchTermsLoop, pending timers being armed
\* already: the pass is started without being awaited, and setTimeout arms
\* the next call (after 60 to 120 minutes, a delay the model leaves open).
engageWithSearchTermsLoop(Slots, pending) ==
    /\ StartPass(Slots)
    /\ timers' = pending + 1
    /\ loopParity' = 1 - loopParity

\* The setTimeout callback runs.
TimerFires(Slots) ==
    /\ timers > 0
    /\ engageWithSearchTermsLoop(Slots, timers - 1)
    /\ UNCHANGED <<cache, gen, bootVars, actVars, topics, respondedTweets>>

(***************************************************************************)
(* start and storeTokenInfo                                                *)
(***************************************************************************)
BootAt(pc) == [boot EXCEPT !.pc = pc]

\* start() calls getTopTrendAndGenerateToken, which awaits getTrends.
start ==
    /\ boot.pc = "constructed"
    /\ starts' = starts + 1
    /\ boot' = BootAt("getTopTrendAndGenerateToken")
    /\ gen' = [GenIdle EXCEPT !.pc = "getTrends",
                              !.logAtCall = cache.used_trends]
    /\ UNCHANGED <<cache, announce, announcements, engVars, actVars>>

\* Line 97, the last statement of start().
CallLoop(Slots) ==
    /\ boot' = BootAt("started")
    /\ engageWithSearchTermsLoop(Slots, timers)
    /\ UNCHANGED <<topics, respondedTweets>>

\* getTopTrendAndGenerateToken has returned: a concept is handed to
\* storeTokenInfo, which awaits the cache; without one the loop is started.
tokenReturns(Slots) ==
    /\ boot.pc = "getTopTrendAndGenerateToken"
    /\ gen.pc = "done"
    /\ IF gen.result # None
       THEN /\ boot' = BootAt("storeTokenInfo_get")
            /\ UNCHANGED engVars
       ELSE CallLoop(Slots)
    /\ UNCHANGED <<cache, gen, announce, starts, announcements, actVars>>

storeGetReturns ==
    /\ boot.pc = "storeTokenInfo_get"
    /\ boot' = [boot EXCEPT
                  !.pc = "storeTokenInfo_set",
                  !.generatedTokens =
                      Append(OrEmpty(cache.generated_tokens), gen.result[1])]
    /\ UNCHANGED <<cache, gen, announce, starts, announcements, engVars, actVars>>

\* Nothing in storeTokenInfo or start catches a rejection of the cache:
\* start() rejects and line 97 is not reached.
storeThrows ==
    /\ boot.pc \in {"storeTokenInfo_get", "storeTokenInfo_set"}
    /\ boot' = BootAt("rejected")
    /\ UNCHANGED <<cache, gen, announce, starts, announcements, engVars, actVars>>

storeSetReturns(Slots) ==
    /\ boot.pc = "storeTokenInfo_set"
    /\ cache' = [cache EXCEPT !.generated_tokens = Some(boot.generatedTokens)]
    /\ IF announce
       THEN /\ boot' = BootAt("sendTweet")
            /\ UNCHANGED engVars
       ELSE CallLoop(Slots)
    /\ UNCHANGED <<gen, announce, starts, announcements, actVars>>

announceReturns(Slots) ==
    /\ boot.pc = "sendTweet"
    /\ announcements' = Append(announcements, gen.result[1].ticker.val)
    /\ CallLoop(Slots)
    /\ UNCHANGED <<cache, gen, announce, starts, actVars>>

\* storeTokenInfo without its try block: the rejection of sendTweet rejects
\* storeTokenInfo and start().
announceThrows_rethrow(Slots) ==
    /\ boot.pc = "sendTweet"
    /\ boot' = BootAt("rejected")
    /\ UNCHANGED <<cache, gen, announce, starts, announcements, engVars, actVars>>

\* The catch block of storeTokenInfo logs the error.
announceThrows(Slots) ==
    /\ boot.pc = "sendTweet"
    /\ CallLoop(Slots)
    /\ UNCHANGED <<cache, gen, announce, starts, announcements, actVars>>

\* The process is started again: the cache is kept, the memory is not.
Restart ==
    /\ boot.pc \in {"started", "rejected", "crashed"}
    /\ starts < MaxStarts
    /\ boot' = [pc |-> "constructed", generatedTokens |-> <<>>]
    /\ gen' = GenIdle
    /\ respondedTweets' = {}
    /\ timers' = 0
    /\ passes' = [s \in 1..MaxPasses |-> PassIdle]
    /\ untracked' = FALSE
    /\ loopParity' = 0
    /\ handler' = [h \in Handlers |-> HandlerIdle]
    /\ UNCHANGED <<cache, announce, starts, announcements, topics>>

(***************************************************************************)
(* Specifications                                                          *)
(***************************************************************************)
EmptyCache ==
    [used_trends |-> None, generated_tokens |-> None, launched_tokens |-> None,
     tweet_generation |-> {}]

\* The state after construction, for each configuration.
Init ==
    /\ cache = EmptyCache
    /\ announce \in BOOLEAN
    /\ boot = [pc |-> "constructed", generatedTokens |-> <<>>]
    /\ starts = 0
    /\ gen = GenIdle
    /\ announcements = <<>>
    /\ topics \in TopicLists
    /\ respondedTweets = {}
    /\ timers = 0
    /\ passes = [s \in 1..MaxPasses |-> PassIdle]
    /\ untracked = FALSE
    /\ loopParity = 0
    /\ handler = [h \in Handlers |-> HandlerIdle]

Boot(Slots) ==
    \/ start
    \/ tokenReturns(Slots)
    \/ storeGetReturns
    \/ storeThrows
    \/ storeSetReturns(Slots)
    \/ announceReturns(Slots)
    \/ announceThrows(Slots)
    \/ Restart

\* The generator under every trend list, the passes not followed.
NextGen ==
    \/ Boot({})
    \/ getTopTrendAndGenerateToken(TrendLists, SomeResponses)

SpecGen == Init /\ [][NextGen]_vars

\* The generator under every model response, for one trend.
OneTrend == {<<[name |-> "AI"]>>}
NextValidate ==
    \/ Boot({})
    \/ getTopTrendAndGenerateToken(OneTrend, AllResponses)

SpecValidate == Init /\ [][NextValidate]_vars

\* One pass followed through every search result, timeline, model response
\* and failure, the timer expiring at any time: a pass started while the
\* one followed has not returned is recorded in untracked. The token cycle
\* of start() is skipped (no trends, or getTrends rejecting).
EngSlots == {1}
NoTrends == {<<>>}

NextEng ==
    \/ start
    \/ getTrendsReturns(NoTrends)
    \/ getTrendsThrows
    \/ tokenReturns(EngSlots)
    \/ TimerFires(EngSlots)
    \/ engageWithSearchTerms(1, SearchLists, Timelines, PickResponses, ReplyTexts)

InitEng == Init /\ announce = FALSE

SpecEng == InitEng /\ [][NextEng]_vars

\* The loop with the timer expiring at any time: up to MaxPasses passes are
\* followed side by side, over one candidate post, and any further pass is
\* started untracked.
LoopSlots == 1..MaxPasses
LoopSearches == {<<>>, <<TweetB>>}
LoopHomes == {<<>>}
LoopResponses == {<<"1", "2">>, <<"2", "1">>}
LoopPasses ==
    \E s \in LoopSlots :
        engageWithSearchTerms(s, LoopSearches, LoopHomes, LoopResponses, ReplyTexts)
NextLoop ==
    \/ start
    \/ getTrendsReturns(NoTrends)
    \/ getTrendsThrows
    \/ tokenReturns(LoopSlots)
    \/ TimerFires(LoopSlots)
    \/ LoopPasses

InitLoop == Init /\ announce = FALSE /\ topics = <<"sol">>

SpecLoop == InitLoop /\ [][NextLoop]_vars

\* The event loop runs the callback of a timer that has expired; nothing is
\* assumed of the calls a pass awaits, which may never return.
LoopFair == SpecLoop /\ WF_vars(TimerFires(LoopSlots))

\* The whole client from start(): the token cycle over one trend and a few
\* model responses, then one pass followed over one candidate post, every
\* external call returning or rejecting.
ClientTrends == NoTrends \cup OneTrend
ValidObject ==
    [name |-> JStr(NameOfLen(1)), ticker |-> JStr(<<"x", "x", "x">>),
     description |-> JStr(<<"d">>), imagePrompt |-> JStr(<<"p">>)]
ClientResponses ==
    {JsonText(ValidObject),
     JsonText([ValidObject EXCEPT !.ticker = JStr(<<"x", "7", "x">>)]),
     ProseText, NullText}
NextClient ==
    \/ Boot(EngSlots)
    \/ getTopTrendAndGenerateToken(ClientTrends, ClientResponses)
    \/ TimerFires(EngSlots)
    \/ engageWithSearchTerms(1, LoopSearches, LoopHomes, LoopResponses, ReplyTexts)

SpecClient == Init /\ [][NextClient]_vars

\* The generator of start() and an invocation of the handler side by side on
\* the one cache, each with its own answer of the trends service.
RaceTrends ==
    {<<>>, <<[name |-> "AI"]>>, <<[name |-> "Web3"]>>,
     <<[name |-> "AI"], [name |-> "Web3"]>>}
RaceResponses == {JsonText(ValidObject), ProseText}
ValidContent ==
    [trend |-> JStr(<<"t">>), name |-> JStr(NameOfLen(1)),
     symbol |-> JStr(<<"X", "Y", "X">>), description |-> JStr(<<"d">>),
     uri |-> JStr(<<"u">>), decimals |-> JNum]
RaceContents == {ContentText(ValidContent), ContentProse}
NextRace ==
    \/ start
    \/ getTopTrendAndGenerateToken(RaceTrends, RaceResponses)
    \/ CREATE_TRENDING_TOKEN(1, RaceTrends, RaceContents)

InitRace == Init /\ announce = FALSE /\ topics = <<"sol">>

SpecRace == InitRace /\ [][NextRace]_vars

\* Two invocations of the handler side by side on the one cache.
NextWriters ==
    \E h \in Handlers : CREATE_TRENDING_TOKEN(h, RaceTrends, RaceContents)

SpecWriters == InitRace /\ [][NextWriters]_vars

\* One invocation of the handler at a time, called again and again, under every trend list and
\* every model response.
NextHandler == CREATE_TRENDING_TOKEN(1, TrendLists, ContentResponses)

SpecHandler == InitRace /\ [][NextHandler]_vars

(***************************************************************************)
(* Properties of the generator                                             *)
(*                                                                         *)
(* Where a property is about the outcome of an invocation whose external   *)
(* calls succeed, it says so through gen.thrownBy, the call that rejected. *)
(***************************************************************************)
\* The first trend of the list whose name is not in the log, if any.
FirstUnused(trends, usedTrends) ==
    LET unused == {k \in 1..Len(trends) : trends[k].name \notin Range(usedTrends)}
    IN  IF unused = {} THEN None ELSE Some(trends[MinOf(unused)].name)

\* C1: once the scan of the trend list has ended, the selected trend is the
\* first trend in list order whose name is absent from the used-trends log
\* as cached when the generator was called; it is never a name of that log;
\* and whenever the list holds such a trend one is selected and handed to
\* the language model.
C1_SelectsFirstUnused ==
    gen.scanDone =>
        /\ gen.selectedTrend = FirstUnused(gen.trends, OrEmpty(gen.logAtCall))
        /\ gen.selectedTrend # None =>
              /\ gen.selectedTrend[1] \notin Range(OrEmpty(gen.logAtCall))
              /\ gen.llmCalled
        /\ (\E k \in 1..Len(gen.trends) :
                gen.trends[k].name \notin Range(OrEmpty(gen.logAtCall)))
              => gen.selectedTrend # None

\* C1, reached: trends [AI, AI, Web3] with log [AI] select Web3.
C1_Witness ==
    /\ gen.scanDone
    /\ gen.trends = <<[name |-> "AI"], [name |-> "AI"], [name |-> "Web3"]>>
    /\ gen.logAtCall = Some(<<"AI">>)
    /\ gen.selectedTrend = Some("Web3")

LetterStrings(lo, hi) == UNION {[1..n -> LowerChars \cup UpperChars] : n \in lo..hi}
UpperCaseOf == [c \in LowerChars \cup UpperChars |-> IF c = "x" THEN "X" ELSE c]

\* A concept as the specification defines it valid.
ValidConcept(o) ==
    /\ o.ticker.type = "string"
    /\ o.ticker.val \in LetterStrings(3, 5)
    /\ o.name.type = "string"
    /\ Len(o.name.val) < 33
    /\ o.description.type = "string"
    /\ o.imagePrompt.type = "string"

\* C2: a model response is accepted (a concept is kept for the log and the
\* return) if and only if it parses to an object whose ticker is made of
\* letters only with a length in 3..5, whose name has at most 32 characters
\* and whose description and imagePrompt are strings; the accepted concept
\* is the response with its ticker in upper case and the selected trend as
\* its source; and the concept returned is the accepted one.
C2_ValidationExact ==
    gen.response # None =>
        LET r == gen.response[1]
        IN  /\ gen.tokenInfo # None <=> (r.kind = "json" /\ ValidConcept(r.obj))
            /\ gen.tokenInfo # None =>
                  LET t == gen.tokenInfo[1]
                  IN  /\ t.ticker.type = "string"
                      /\ Len(t.ticker.val) = Len(r.obj.ticker.val)
                      /\ \A k \in 1..Len(t.ticker.val) :
                            t.ticker.val[k] = UpperCaseOf[r.obj.ticker.val[k]]
                      /\ t.name = r.obj.name
                      /\ t.description = r.obj.description
                      /\ t.imagePrompt = r.obj.imagePrompt
                      /\ t.sourceTrend = gen.selectedTrend[1]
            /\ gen.result # None => gen.result = gen.tokenInfo
            /\ (gen.pc = "done" /\ gen.tokenInfo # None /\ gen.thrownBy = "")
                  => gen.result = gen.tokenInfo

\* C2, reached: ticker "xxx" is accepted and returned as "XXX".
C2_Witness ==
    /\ gen.pc = "done"
    /\ gen.response # None
    /\ gen.response[1].obj.ticker = JStr(<<"x", "x", "x">>)
    /\ gen.result # None
    /\ gen.result[1].ticker = JStr(<<"X", "X", "X">>)

\* C3: an invocation that has returned null has left twitter/used_trends as
\* it was when the invocation was called; and whenever the entry differs from
\* that during or after an invocation, the model response of the invocation
\* was a valid concept and the entry is the old log with the selected trend
\* appended.
C3_NullLeavesLog ==
    gen.pc # "idle" =>
        /\ (gen.pc = "done" /\ gen.result = None)
              => cache.used_trends = gen.logAtCall
        /\ cache.used_trends # gen.logAtCall =>
              /\ gen.response # None
              /\ gen.response[1].kind = "json"
              /\ ValidConcept(gen.response[1].obj)
              /\ cache.used_trends =
                    Some(Append(OrEmpty(gen.logAtCall), gen.selectedTrend[1]))

\* C3, reached: a ticker longer than five letters fails the validation and
\* null is returned, the log holding an earlier trend.
C3_Witness ==
    /\ gen.pc = "done"
    /\ gen.result = None
    /\ gen.outcome = "invalid"
    /\ Len(gen.response[1].obj.ticker.val) > 5
    /\ gen.logAtCall = Some(<<"AI">>)
    /\ cache.used_trends = Some(<<"AI">>)

\* C4: an invocation called with trends recorded in the log, and given a
\* trend list all of whose names are in the log, returns null, calls no
\* language model and leaves the log as it was; it ends as "no unused
\* trend" unless a read of the cache rejected, the only call that can.
C4_ReplayFindsNoTrend ==
    (/\ gen.pc = "done"
     /\ gen.logAtCall # None
     /\ gen.thrownBy # "getTrends"
     /\ \A k \in 1..Len(gen.trends) :
            gen.trends[k].name \in Range(OrEmpty(gen.logAtCall)))
        => /\ gen.result = None
           /\ ~gen.llmCalled
           /\ cache.used_trends = gen.logAtCall
           /\ gen.thrownBy \in {"", "cache.get"}
           /\ gen.thrownBy = "" => gen.outcome = "no_unused"

\* C4, reached: both trends recorded by earlier invocations, a list of both
\* finds no unused trend.
C4_Witness ==
    /\ gen.pc = "done"
    /\ gen.logAtCall = Some(<<"AI", "Web3">>)
    /\ gen.trends = <<[name |-> "Web3"], [name |-> "AI"]>>
    /\ gen.outcome = "no_unused"
    /\ ~gen.llmCalled
    /\ starts = 3

(***************************************************************************)
(* Properties of the engagement loop                                       *)
(***************************************************************************)
PassesInProgress == {s \in LoopSlots : InProgress(passes[s])}

\* C5. Engagement passes never overlap: in every state of the loop at most
\* one invocation of engageWithSearchTerms is in progress, no pass being
\* started before the pass before it has returned.
C5_PassesNeverOverlap ==
    /\ Cardinality(PassesInProgress) <= 1
    /\ ~untracked

\* A tracked pass is started in slot s.
PassStarts(s) == passes[s].pc # "sleep" /\ passes'[s].pc = "sleep"

\* C6. The loop always reschedules: once the loop has been called a next
\* call is pending in every state, whatever has become of the passes; the
\* loop is called again and again as long as the process runs; and a pass
\* is started by a call of the loop only, so a pass that has failed is not
\* run again before the timer expires.
C6_AlwaysReschedules ==
    /\ [](boot.pc = "started" => timers = 1)
    /\ []<>(loopParity = 0 \/ boot.pc # "started")
    /\ []<>(loopParity = 1 \/ boot.pc # "started")
    /\ [][\A s \in LoopSlots : PassStarts(s) => loopParity' # loopParity]_vars

\* The timer has started a second pass, which an external call has failed,
\* and the timer is pending again.
C6_Witness ==
    /\ boot.pc = "started"
    /\ loopParity = 0
    /\ passes[1].pc = "done"
    /\ passes[1].outcome \in {"error", "send_error"}
    /\ timers = 1

(***************************************************************************)
(* Properties of the engagement pass                                       *)
(***************************************************************************)
AgentInThread(tweet) ==
    \E k \in 1..Len(tweet.thread) : tweet.thread[k].username = TwitterUsername

Elements(q) == {q[k] : k \in 1..Len(q)}

\* C7. No reply is posted to a post whose thread holds a post of the agent:
\* the post replied to has passed the thread filter.
C7_NoReplyInOwnThread ==
    \A s \in EngSlots :
        "reply" \in passes[s].effects =>
            ~AgentInThread(passes[s].selectedTweet[1])

\* C8. The thread filter is exact: the posts offered to the model are the
\* posts of the pool (candidates, then home timeline) in whose thread no post
\* is written by the agent, every one of them and no other.
C8_FilterExact ==
    \A s \in EngSlots :
        passes[s].pc = "generateText" =>
            LET pool == passes[s].slicedTweets \o passes[s].homeTimeline
            IN  \A t \in Tweets :
                    t \in Elements(passes[s].prompt)
                        <=> (t \in Elements(pool) /\ ~AgentInThread(t))

\* The filter has removed a candidate and a timeline post, and kept another
\* candidate.
C8_Witness ==
    /\ passes[1].pc = "generateText"
    /\ passes[1].slicedTweets = <<TweetB, TweetA>>
    /\ passes[1].homeTimeline = <<TweetB>>
    /\ passes[1].prompt = <<TweetA>>

\* generateText has returned in the pass and the candidates are still held.
Picked(p) ==
    /\ p.slicedTweets # <<>>
    /\ p.pc # "generateText"
    /\ ~(p.pc = "done" /\ p.thrownBy = "generateText")

\* The candidates whose id contains the trimmed response or is contained in it.
Related(p) ==
    {k \in 1..Len(p.slicedTweets) :
        \/ Includes(p.tweetId, p.slicedTweets[k].id)
        \/ Includes(p.slicedTweets[k].id, p.tweetId)}

\* C9. Id resolution: with exactly one candidate whose id contains the
\* trimmed response or is contained in it, that candidate is selected; with
\* no such candidate the pass returns, nothing posted and no error raised.
C9_IdResolution ==
    \A s \in EngSlots :
        LET p == passes[s]
        IN  Picked(p) =>
                /\ \A k \in Related(p) :
                       Related(p) = {k} => p.selectedTweet = Some(p.slicedTweets[k])
                /\ Related(p) = {} =>
                       /\ p.selectedTweet = None
                       /\ p.pc = "done"
                       /\ p.outcome = "no_match"
                       /\ p.thrownBy = ""
                       /\ "reply" \notin p.effects

\* The response holds the id of the second candidate, and of no other.
C9_Witness ==
    /\ passes[1].pc = "ensureConnection"
    /\ passes[1].slicedTweets = <<TweetC, TweetA>>
    /\ passes[1].tweetId = <<"1", "1">>
    /\ passes[1].selectedTweet = Some(TweetA)

\* C10. No reply to a post of the agent: with the selected post written by
\* the agent the pass has returned, having made no connection record, saved
\* no message and posted no reply, and respondedTweets is as it was at the
\* call.
C10_NoReplyToOwnPost ==
    \A s \in EngSlots :
        LET p == passes[s]
        IN  (p.selectedTweet # None
                /\ p.selectedTweet[1].username = TwitterUsername) =>
                /\ p.pc = "done"
                /\ p.outcome = "own_post"
                /\ p.effects \cap {"connection", "requestMessage", "reply",
                                   "responseMessage", "responded", "trace"} = {}
                /\ respondedTweets = p.respondedAtCall

\* A pass has replied, and the next has selected a post of the agent.
C10_Witness ==
    /\ passes[1].pc = "done"
    /\ passes[1].selectedTweet = Some(TweetC)
    /\ passes[1].outcome = "own_post"
    /\ respondedTweets = {TweetA.id}

(***************************************************************************)
(* Properties of the failures                                              *)
(***************************************************************************)
\* C11. No invocation lets an error out: after the failure of any external
\* call, and after a model response that does not parse,
\* getTopTrendAndGenerateToken has returned null and engageWithSearchTerms
\* has returned, and no failure of a call made by a pass ends the process.
C11_NoErrorPropagates ==
    /\ boot.pc # "crashed"
    /\ (gen.thrownBy # "" \/ gen.outcome = "parse_error") =>
           /\ gen.pc = "done"
           /\ gen.result = None
    /\ \A s \in EngSlots :
           passes[s].thrownBy # "" =>
               /\ passes[s].pc = "done"
               /\ passes[s].outcome \in {"error", "send_error"}

\* The concept handed to storeTokenInfo is the last entry of the stored
\* list twitter/generated_tokens.
ConceptStored ==
    /\ cache.generated_tokens # None
    /\ Len(cache.generated_tokens[1]) > 0
    /\ cache.generated_tokens[1][Len(cache.generated_tokens[1])] = gen.result[1]

\* C12. The announcement is gated and not fatal: it is posted only with the
\* announce option set and with the concept already stored in
\* twitter/generated_tokens; whether the posting returns or fails,
\* storeTokenInfo returns, start() goes on to the loop, and the stored list
\* is left as it is.
C12_AnnouncementGatedNotFatal ==
    /\ [](boot.pc = "sendTweet" => (announce /\ ConceptStored))
    /\ [](announcements # <<>> => announce)
    /\ [][boot.pc = "sendTweet" =>
            /\ boot'.pc = "started"
            /\ cache' = cache]_vars
    /\ [][announcements' # announcements =>
            /\ boot.pc = "sendTweet"
            /\ announcements' = Append(announcements, gen.result[1].ticker.val)]_vars

\* The posting of the announcement has failed: nothing is announced, the
\* concept is stored and the loop has been started.
C12_Witness ==
    /\ announce
    /\ starts = 1
    /\ boot.pc = "started"
    /\ gen.result # None
    /\ announcements = <<>>
    /\ ConceptStored

\* C14. No failure of the token cycle at startup keeps the loop from being
\* started: start() never ends without having called
\* engageWithSearchTermsLoop.
C14_StartReachesLoop == boot.pc # "rejected"

(***************************************************************************)
(* Properties of the reply                                                 *)
(***************************************************************************)
\* C13. The reply is posted in reply to the selected post: the id handed to
\* sendTweet is the id of the candidate the response was resolved to.
C13_ReplyToSelectedPost ==
    \A s \in EngSlots :
        passes[s].inReplyTo # None =>
            passes[s].inReplyTo = Some(passes[s].selectedTweet[1].id)

\* C17. The substring resolution can select another post than the one whose
\* id the model returned: the post selected is the first candidate, in
\* shuffled order, whose id contains the trimmed response or is contained in
\* it, also when the id of a later candidate is the response itself.
C17_FirstRelatedSelected ==
    \A s \in EngSlots :
        LET p == passes[s]
        IN  Picked(p) =>
                p.selectedTweet =
                    IF Related(p) = {} THEN None
                    ELSE Some(p.slicedTweets[MinOf(Related(p))])

\* The response is the id of the second candidate, a proper prefix of the id
\* of the first, and the first is selected.
C17_Witness ==
    /\ passes[1].pc = "ensureConnection"
    /\ passes[1].slicedTweets = <<TweetB, TweetA>>
    /\ passes[1].tweetId = TweetA.id
    /\ passes[1].selectedTweet = Some(TweetB)

\* The pass has called sendTweet, added to respondedTweets or written a
\* trace.
Replied(p) ==
    \/ p.inReplyTo # None
    \/ p.effects \cap {"reply", "responded", "trace"} # {}
    \/ respondedTweets # p.respondedAtCall

\* C20. A reply is posted on the full path only: a pass with no candidate,
\* with a selected post without text or with a generated reply without text
\* has returned without calling sendTweet, without adding to
\* respondedTweets and without writing a trace.
C20_ReplyOnFullPathOnly ==
    \A s \in EngSlots :
        LET p == passes[s]
        IN  /\ p.outcome \in {"no_tweets", "no_text", "no_reply_text"} =>
                   (p.pc = "done" /\ ~Replied(p))
            /\ Replied(p) =>
                   /\ p.selectedTweet # None
                   /\ p.selectedTweet[1].text # <<>>
                   /\ p.responseText # <<>>

\* A reply has been generated without text for a post with text, after a
\* pass that replied.
C20_Witness ==
    /\ passes[1].pc = "done"
    /\ passes[1].outcome = "no_reply_text"
    /\ passes[1].selectedTweet = Some(TweetA)
    /\ passes[1].responseText = <<>>
    /\ respondedTweets # {}

\* The pass is past its five second sleep: fetchSearchTweets directly
\* follows it (lines 254-259), so the search request has been issued.
Searched(p) == p.pc \notin {"idle", "sleep"}

\* C21. An empty topic list is guarded: with no topic configured a pass
\* ends without calling fetchSearchTweets, without posting a reply and
\* without an error thrown in it.
C21_EmptyTopicsGuarded ==
    \A s \in EngSlots :
        LET p == passes[s]
        IN  (p.pc # "idle" /\ p.searchTerm = None) =>
                /\ ~Searched(p)
                /\ ~Replied(p)
                /\ p.thrownBy = ""

(***************************************************************************)
(* Properties of respondedTweets                                           *)
(***************************************************************************)
\* The awaits from the posting of the reply to the processing of the
\* actions (lines 466-486).
ReplySteps == InnerPcs \ {"cacheSet", "wait"}

\* The reply of the pass has been posted to its selected post and stored:
\* sendTweet was called in reply to the id of the post and has returned at
\* least one message, and createMemory has returned for each of them.
ReplyPersisted(p) ==
    /\ p.inReplyTo = Some(p.selectedTweet[1].id)
    /\ "reply" \in p.effects
    /\ p.responseMessages > 0
    /\ "responseMessage" \in p.effects
    /\ p.memory = p.responseMessages

\* The ids a pass has added to respondedTweets.
AddedBy(p) ==
    IF "responded" \in p.effects THEN {p.selectedTweet[1].id} ELSE {}

\* C22. respondedTweets is sound: every id of the set is the id of a post
\* to which, in this process lifetime, a reply has been posted and whose
\* messages have been stored: a pass adds the id of its selected post only,
\* and only with its reply posted to that post and stored; a pass that
\* failed in posting, storing, evaluating or processing the actions has
\* left the set as at its call and has written no trace.
C22_RespondedSetSound ==
    \A s \in EngSlots :
        LET p == passes[s]
        IN  /\ p.pc # "idle" =>
                   respondedTweets = p.respondedAtCall \cup AddedBy(p)
            /\ "responded" \in p.effects => ReplyPersisted(p)
            /\ "trace" \in p.effects => "responded" \in p.effects
            /\ (p.outcome = "send_error" /\ p.thrownBy \in ReplySteps) =>
                   /\ AddedBy(p) = {}
                   /\ "trace" \notin p.effects

\* C23. No reply is repeated: a pass posts no reply to a post whose id was
\* in respondedTweets when the pass was called.
C23_NoRepeatedReply ==
    \A s \in EngSlots :
        LET p == passes[s]
        IN  "reply" \in p.effects =>
                p.selectedTweet[1].id \notin p.respondedAtCall

(***************************************************************************)
(* Properties of the cache lists and of the handler                        *)
(***************************************************************************)
\* C15. Lost update: a write stores the list its writer read, with the
\* writer's entry appended, over whatever has been stored since the read
\* (the last write wins on the whole list), so that of two writers that
\* complete, one's entry can be missing.
C15_LastWriteWins ==
    [][/\ cache'.used_trends # cache.used_trends =>
              \E h \in Handlers :
                  /\ handler[h].pc = "set_used_trends"
                  /\ cache'.used_trends = Some(handler[h].usedTrends)
       /\ cache'.launched_tokens # cache.launched_tokens =>
              \E h \in Handlers :
                  /\ handler[h].pc = "set_launched_tokens"
                  /\ cache'.launched_tokens = Some(handler[h].launchedTokens)]_vars

\* Two invocations of the handler, for two trends, have both returned true
\* from the empty cache, and each list holds one entry.
C15_Witness ==
    /\ handler[1].result = Some(TRUE)
    /\ handler[2].result = Some(TRUE)
    /\ handler[1].topTrend # handler[2].topTrend
    /\ Len(handler[1].usedTrends) = 1
    /\ Len(handler[2].usedTrends) = 1
    /\ Len(handler[1].launchedTokens) = 1
    /\ Len(handler[2].launchedTokens) = 1
    /\ Len(OrEmpty(cache.used_trends)) = 1
    /\ Len(OrEmpty(cache.launched_tokens)) = 1

\* C16. Duplicate insertion: the membership test and the append are separate
\* accesses, and the append does not test again: cacheUsedTrend pushes the
\* trend on the log it reads, whatever the log holds by then, and the
\* handler pushes it on the log it read for its test, so that one name can
\* be stored twice.
C16_AppendWithoutCheck ==
    /\ [][(gen.pc = "cacheUsedTrend_get" /\ gen'.pc = "cacheUsedTrend_set") =>
             gen'.usedTrends =
                 Append(OrEmpty(cache.used_trends), gen.selectedTrend[1])]_vars
    /\ [](handler[1].pc = "set_used_trends" =>
             /\ Len(handler[1].usedTrends) > 0
             /\ handler[1].usedTrends[Len(handler[1].usedTrends)]
                    = handler[1].topTrend[1])

\* The generator and the handler have both found the trend unused, generated
\* and deployed a token for it, and the log holds the name twice.
C16_Witness ==
    /\ gen.outcome = "ok"
    /\ gen.selectedTrend = Some("AI")
    /\ handler[1].result = Some(TRUE)
    /\ handler[1].topTrend = Some("AI")
    /\ cache.used_trends = Some(<<"AI", "AI">>)

\* C18. The handler selects the trend as the generator does: it goes on with
\* the first trend of the list absent from the log, and fails for lack of a
\* trend only with an empty list or with every trend of the list in the log.
C18_HandlerSelectsFirstUnused ==
    LET h == handler[1]
    IN  /\ h.error = "No trending topics found" => h.trends = <<>>
        /\ h.error = "Top trend already used" =>
               FirstUnused(h.trends, h.usedTrends) = None
        /\ h.pc = "generateText" =>
               h.topTrend = FirstUnused(h.trends, h.usedTrends)

\* C19. Every record of twitter/launched_tokens is a valid concept: the name
\* has at most 32 characters and the symbol 3 to 5 letters and nothing else.
C19_LaunchedRecordsValid ==
    \A k \in 1..Len(OrEmpty(cache.launched_tokens)) :
        LET record == cache.launched_tokens[1][k]
        IN  /\ record.name.type = "string"
            /\ Len(record.name.val) <= 32
            /\ record.symbol.type = "string"
            /\ record.symbol.val \in LetterStrings(3, 5)

\* C24. The outcome of the handler matches what it left behind: it returns
\* true only with the token deployed, the trend appended to
\* twitter/used_trends and the record with the mint appended to
\* twitter/launched_tokens; when it returns false the callback has been
\* handed the error, no token is deployed and both entries are as at the
\* call.
C24_OutcomeMatchesState ==
    LET h == handler[1]
    IN  /\ h.result = Some(TRUE) =>
               /\ h.deployed
               /\ cache.used_trends =
                      Some(Append(OrEmpty(h.logAtCall), h.topTrend[1]))
               /\ cache.launched_tokens =
                      Some(Append(OrEmpty(h.launchedAtCall),
                                  LaunchedRecord(h.tokenInfo[1])))
        /\ h.result = Some(FALSE) =>
               /\ h.hasCallback => h.callback = "error"
               /\ ~h.deployed
               /\ cache.used_trends = h.logAtCall
               /\ cache.launched_tokens = h.launchedAtCall

====
